---------------------------- MODULE Spec2Model ----------------------------
(***************************************************************************)
(* Dominance tree for PEG graphs (ir/ana/peg_dom.c).                       *)
(*                                                                         *)
(* The dependence graph is a DAG of ir_nodes.  get_irn_n(irn, i) are the   *)
(* dependency edges, foreach_out_edge(irn, ..) enumerates the use edges.   *)
(* pd_init numbers the nodes in postorder, runs pd_compute to a fixpoint   *)
(* and finally numbers the dominator tree in preorder for the interval     *)
(* test of pd_dominates.                                                   *)
(*                                                                         *)
(* Nodes are numbered in a topological order of the dependency edges, the  *)
(* Return node last.  A node that is not below the Return node has no      *)
(* pd_node; such nodes still show up as sources of out edges.              *)
(***************************************************************************)
EXTENDS Integers, Sequences, FiniteSets, TLC

NumNodes == 4
MaxArity == 2

Nil == 0

Nodes == 1..NumNodes

VARIABLES
    deps,        \* get_irn_n: deps[n][i+1] is operand i of n
    outs,        \* foreach_out_edge: outs[n] lists get_edge_src_irn in list order
    edges,       \* edges_activated(irg)
    edgesBefore, \* pd_init's local `edges` (result of edges_assure)
    pc,          \* position inside pd_init
    shadow,      \* nodes that have phase data (a pd_node)
    defined,     \* pd_node.defined
    index,       \* pd_node.index
    max_index,   \* pd_node.max_index
    children,    \* pd_node.children (plist, front to back)
    parent,      \* pd_node.parent (Nil is NULL)
    visited,     \* irn_visited(irn) for the irg's current visited counter
    stack,       \* activation records of pd_compute
    changed,     \* pd_init's local `changed`
    iterIrn,     \* node handed to pd_children_iter_init (Nil: no iterator)
    iter,        \* pd_children_iter: position in the list, Nil is NULL
    iterOut,     \* values returned by pd_children_iter_next so far
    attachClock, \* history: number of pd_set_parent calls so far
    attachTime,  \* history: attachClock at the node's last pd_set_parent
    builds,      \* history: number of pd_init calls started
    prevParent,  \* history: parent relation of the previous build
    prevDom,     \* history: pd_dominates answers of the previous build
    usedOuts,    \* history: out edge lists this build works on
    prevOuts,    \* history: out edge lists the previous build worked on
    qret         \* the last query call and what it returned

graphVars == <<deps, outs, edges, edgesBefore>>
treeVars  == <<shadow, defined, index, max_index, children, parent>>
iterVars  == <<iterIrn, iter, iterOut>>
histVars  == <<attachClock, attachTime>>
prevVars  == <<builds, prevParent, prevDom, usedOuts, prevOuts>>
vars == <<deps, outs, edges, edgesBefore, pc, shadow, defined, index,
          max_index, children, parent, visited, stack, changed,
          iterIrn, iter, iterOut, attachClock, attachTime,
          builds, prevParent, prevDom, usedOuts, prevOuts, qret>>

-----------------------------------------------------------------------------
(* The dependence graph. *)

\* The Return node: get_Block_cfgpred(end, 0).
ret == NumNodes

SeqsUpTo(S, k) == UNION {[1..l -> S] : l \in 0..k}

\* All operand lists of nodes 1..n; an operand precedes its user.
RECURSIVE DepGraphs(_)
DepGraphs(n) ==
    IF n = 0 THEN {<<>>}
    ELSE {Append(g, s) : g \in DepGraphs(n - 1),
                         s \in SeqsUpTo(1..(n - 1), MaxArity)}

\* Number of edges u -> n in graph g.
EdgeCount(g, u, n) == Cardinality({i \in 1..Len(g[u]) : g[u][i] = n})

Users(g, n) == {u \in 1..Len(g) : EdgeCount(g, u, n) > 0}

InDegree(g, n) ==
    Cardinality({e \in (1..Len(g)) \X (1..MaxArity) :
                    e[2] <= Len(g[e[1]]) /\ g[e[1]][e[2]] = n})

\* The orders in which the out edge list of n may hold its edges.
OutOrders(g, n) ==
    {s \in [1..InDegree(g, n) -> Users(g, n)] :
        \A u \in Users(g, n) :
            Cardinality({i \in DOMAIN s : s[i] = u}) = EdgeCount(g, u, n)}

RECURSIVE OutLists(_, _)
OutLists(g, n) ==
    IF n = 0 THEN {<<>>}
    ELSE {Append(o, s) : o \in OutLists(g, n - 1), s \in OutOrders(g, n)}

-----------------------------------------------------------------------------
(* pd_node records and the pure helpers of the solver. *)

\* A pd_node fresh from pd_init_node (OALLOCZ, empty children list).
NoFlags    == [n \in Nodes |-> FALSE]
NoIndex    == [n \in Nodes |-> 0]
NoChildren == [n \in Nodes |-> <<>>]
NoParent   == [n \in Nodes |-> Nil]
NoOuts     == [n \in Nodes |-> <<>>]

\* Outcome of a walk that never leaves its loop.
Hang == -1

\* plist_find_value: position of the first element holding v, 0 if none.
RECURSIVE plist_find_value(_, _, _)
plist_find_value(list, v, k) ==
    IF k > Len(list) THEN 0
    ELSE IF list[k] = v THEN k
    ELSE plist_find_value(list, v, k + 1)

\* plist_erase: the list without the element at position k.
plist_erase(list, k) ==
    [j \in 1..(Len(list) - 1) |-> IF j < k THEN list[j] ELSE list[j + 1]]

\* pd_set_parent that leaves the child in the old parent's list.
pd_set_parent_nodetach(par, chl, p, child) ==
    [ok       |-> TRUE,
     parent   |-> [par EXCEPT ![child] = p],
     children |-> [chl EXCEPT ![p] = Append(chl[p], child)]]

\* pd_set_parent that inserts at the front of the new parent's list.
pd_set_parent_front(par, chl, p, child) ==
    LET old == par[child]
        it  == IF old = Nil THEN 0 ELSE plist_find_value(chl[old], child, 1)
        chl1 == IF old # Nil /\ it # 0
                THEN [chl EXCEPT ![old] = plist_erase(chl[old], it)]
                ELSE chl
    IN  [ok       |-> (old = Nil) \/ (it # 0),
         parent   |-> [par EXCEPT ![child] = p],
         children |-> [chl1 EXCEPT ![p] = <<child>> \o chl1[p]]]

\* pd_set_parent(parent, child) on the relation (par, chl).
\* ok is FALSE when assert(it) fails.
pd_set_parent(par, chl, p, child) ==
    LET old == par[child]
        it  == IF old = Nil THEN 0 ELSE plist_find_value(chl[old], child, 1)
        chl1 == IF old # Nil /\ it # 0
                THEN [chl EXCEPT ![old] = plist_erase(chl[old], it)]
                ELSE chl
    IN  [ok       |-> (old = Nil) \/ (it # 0),
         parent   |-> [par EXCEPT ![child] = p],
         children |-> [chl1 EXCEPT ![p] = Append(chl1[p], child)]]

\* pd_compute_indices_post(pdt, irn, counter); st carries the visited marks,
\* the phase data, the indices and the counter handed on.
RECURSIVE pd_compute_indices_post(_, _)
RECURSIVE pd_compute_indices_post_deps(_, _, _)
\* pd_compute_indices_post numbering a node before its dependencies.
pd_compute_indices_post_pre(st, irn) ==
    IF irn \in st.visited THEN st
    ELSE LET s1 == [st EXCEPT !.visited = @ \cup {irn},
                              !.shadow = @ \cup {irn},
                              !.index[irn] = st.counter,
                              !.counter = @ + 1]
         IN  pd_compute_indices_post_deps(s1, irn, 0)

\* pd_compute_indices_post without the test of the visited mark.
pd_compute_indices_post_novisit(st, irn) ==
    LET s1 == [st EXCEPT !.visited = @ \cup {irn}]
        s2 == pd_compute_indices_post_deps(s1, irn, 0)
    IN  [s2 EXCEPT !.shadow = @ \cup {irn},
                   !.index[irn] = s2.counter,
                   !.counter = @ + 1]

pd_compute_indices_post(st, irn) ==
    IF irn \in st.visited THEN st
    ELSE LET s1 == [st EXCEPT !.visited = @ \cup {irn}]
             s2 == pd_compute_indices_post_deps(s1, irn, 0)
         IN  [s2 EXCEPT !.shadow = @ \cup {irn},
                        !.index[irn] = s2.counter,
                        !.counter = @ + 1]

pd_compute_indices_post_deps(st, irn, i) ==
    IF i < Len(deps[irn])
    THEN pd_compute_indices_post_deps(
             pd_compute_indices_post(st, deps[irn][i + 1]), irn, i + 1)
    ELSE st

\* pd_compute_indices_dom(pdn, counter); st.counter is the value returned.
RECURSIVE pd_compute_indices_dom(_, _, _)
RECURSIVE pd_compute_indices_dom_children(_, _, _)
\* pd_compute_indices_dom with max_index one too large.
pd_compute_indices_dom_offbyone(st, pdn, counter) ==
    LET s1 == [st EXCEPT !.index[pdn] = counter, !.counter = counter]
        s2 == pd_compute_indices_dom_children(s1, pdn, 1)
    IN  [s2 EXCEPT !.max_index[pdn] = s2.counter + 1]

\* pd_compute_indices_dom that never stores max_index.
pd_compute_indices_dom_nomax(st, pdn, counter) ==
    LET s1 == [st EXCEPT !.index[pdn] = counter, !.counter = counter]
    IN  pd_compute_indices_dom_children(s1, pdn, 1)

pd_compute_indices_dom(st, pdn, counter) ==
    LET s1 == [st EXCEPT !.index[pdn] = counter, !.counter = counter]
        s2 == pd_compute_indices_dom_children(s1, pdn, 1)
    IN  [s2 EXCEPT !.max_index[pdn] = s2.counter]

\* The loop over the children handing on counter instead of counter + 1.
pd_compute_indices_dom_children_nostep(st, pdn, k) ==
    IF k <= Len(children[pdn])
    THEN pd_compute_indices_dom_children(
             pd_compute_indices_dom(st, children[pdn][k], st.counter),
             pdn, k + 1)
    ELSE st

pd_compute_indices_dom_children(st, pdn, k) ==
    IF k <= Len(children[pdn])
    THEN pd_compute_indices_dom_children(
             pd_compute_indices_dom(st, children[pdn][k], st.counter + 1),
             pdn, k + 1)
    ELSE st

\* `while (a->index < b->index) a = a->parent;` -- the node a ends on,
\* Nil when a NULL parent is dereferenced, Hang when the walk cycles.
RECURSIVE pd_climb(_, _, _)
\* The inner loop with its comparison turned around.
RECURSIVE pd_climb_wrongway(_, _, _)
pd_climb_wrongway(a, b, fuel) ==
    IF a = Nil THEN Nil
    ELSE IF index[a] > index[b]
         THEN IF fuel = 0 THEN Hang ELSE pd_climb_wrongway(parent[a], b, fuel - 1)
         ELSE a

pd_climb(a, b, fuel) ==
    IF a = Nil THEN Nil
    ELSE IF index[a] < index[b]
         THEN IF fuel = 0 THEN Hang ELSE pd_climb(parent[a], b, fuel - 1)
         ELSE a

\* pd_compute_intersect(lhs, rhs) on the current tree.
RECURSIVE pd_compute_intersect(_, _, _)
pd_compute_intersect(lhs, rhs, fuel) ==
    IF lhs = rhs THEN lhs
    ELSE IF fuel = 0 THEN Hang
    ELSE LET l == pd_climb(lhs, rhs, NumNodes)
         IN  IF l \notin Nodes THEN l
             ELSE LET r == pd_climb(rhs, l, NumNodes)
                  IN  IF r \notin Nodes THEN r
                      ELSE pd_compute_intersect(l, r, fuel - 1)

\* First loop of pd_compute: the first out edge whose source is defined.
RECURSIVE find_new_idom(_, _)
find_new_idom(irn, k) ==
    IF k > Len(outs[irn]) THEN Nil
    ELSE LET pd_src == outs[irn][k]
         IN  IF pd_src \in shadow /\ defined[pd_src] THEN pd_src
             ELSE find_new_idom(irn, k + 1)

\* Second loop of pd_compute leaving the loop after its first intersection.
RECURSIVE for_all_others_once(_, _, _)
for_all_others_once(irn, k, pd_idom) ==
    IF k > Len(outs[irn]) THEN pd_idom
    ELSE LET pd_src == outs[irn][k]
         IN  IF pd_src \in shadow /\ pd_src # pd_idom /\ defined[pd_src]
             THEN pd_compute_intersect(pd_src, pd_idom, 2 * NumNodes)
             ELSE for_all_others_once(irn, k + 1, pd_idom)

\* Second loop of pd_compute: intersect with every other defined source.
RECURSIVE for_all_others(_, _, _)
for_all_others(irn, k, pd_idom) ==
    IF k > Len(outs[irn]) THEN pd_idom
    ELSE LET pd_src == outs[irn][k]
         IN  IF pd_src \in shadow /\ pd_src # pd_idom /\ defined[pd_src]
             THEN LET r == pd_compute_intersect(pd_src, pd_idom, 2 * NumNodes)
                  IN  IF r \notin Nodes THEN r
                      ELSE for_all_others(irn, k + 1, r)
             ELSE for_all_others(irn, k + 1, pd_idom)

\* pd_compute without its second loop.
new_idom_first_only(irn) == find_new_idom(irn, 1)

\* The pd_idom that pd_compute links irn to; Nil when assert(pd_idom) fails.
new_idom(irn) ==
    LET first == find_new_idom(irn, 1)
    IN  IF first = Nil THEN Nil ELSE for_all_others(irn, 1, first)

-----------------------------------------------------------------------------
(* Queries. *)

\* pd_dominates without the upper end of the interval.
pd_dominates_noupper(lhs, rhs) == index[rhs] >= index[lhs]

\* pd_dominates with a strict lower end.
pd_dominates_strict(lhs, rhs) ==
    (index[rhs] > index[lhs]) /\ (index[rhs] <= max_index[lhs])

pd_dominates(lhs, rhs) ==
    (index[rhs] >= index[lhs]) /\ (index[rhs] <= max_index[lhs])

pd_get_parent(irn) == IF parent[irn] # Nil THEN parent[irn] ELSE Nil

pd_get_children_count(irn) == Len(children[irn])

pd_get_root == ret

-----------------------------------------------------------------------------
(* pd_init, step by step. *)

MaxBuilds == 2

\* No query has been made on the tree.
NoQuery == [op |-> "none", args |-> <<>>, res |-> 0, fatal |-> FALSE]

Init ==
    /\ deps \in DepGraphs(NumNodes)
    /\ edges \in BOOLEAN
    /\ outs \in (IF edges THEN OutLists(deps, NumNodes) ELSE {NoOuts})
    /\ edgesBefore = FALSE
    /\ pc = "init"
    /\ shadow = {}
    /\ defined = NoFlags
    /\ index = NoIndex
    /\ max_index = NoIndex
    /\ children = NoChildren
    /\ parent = NoParent
    /\ visited = {}
    /\ stack = <<>>
    /\ changed = FALSE
    /\ iterIrn = Nil
    /\ iter = Nil
    /\ iterOut = <<>>
    /\ attachClock = 0
    /\ attachTime = NoIndex
    /\ builds = 0
    /\ prevParent = NoParent
    /\ prevDom = {}
    /\ usedOuts = NoOuts
    /\ prevOuts = NoOuts
    /\ qret = NoQuery

\* pd_init that does not mark the root node defined.
PdInitSetup_rootundefined ==
    /\ pc = "init"
    /\ edgesBefore' = edges
    /\ edges' = TRUE
    /\ IF edges THEN outs' = outs ELSE outs' \in OutLists(deps, NumNodes)
    /\ shadow' = {ret}
    /\ defined' = NoFlags
    /\ builds' = builds + 1
    /\ usedOuts' = outs'
    /\ pc' = "post"
    /\ UNCHANGED <<deps, index, max_index, children, parent, visited, stack,
                   changed, iterVars, histVars, prevParent, prevDom,
                   prevOuts, qret>>

\* pd_init up to the setup of the root node: edges_assure builds the out
\* edge lists if they are not active.
PdInitSetup ==
    /\ pc = "init"
    /\ edgesBefore' = edges
    /\ edges' = TRUE
    /\ IF edges THEN outs' = outs ELSE outs' \in OutLists(deps, NumNodes)
    /\ shadow' = {ret}
    /\ defined' = [NoFlags EXCEPT ![ret] = TRUE]
    /\ builds' = builds + 1
    /\ usedOuts' = outs'
    /\ pc' = "post"
    /\ UNCHANGED <<deps, index, max_index, children, parent, visited, stack,
                   changed, iterVars, histVars, prevParent, prevDom,
                   prevOuts, qret>>

\* inc_irg_visited(irg); pd_compute_indices_post(tree, ret, 0);
PdIndexPost ==
    /\ pc = "post"
    /\ LET st == pd_compute_indices_post(
                     [visited |-> {}, shadow |-> shadow,
                      index |-> index, counter |-> 0], ret)
       IN  /\ visited' = st.visited
           /\ shadow' = st.shadow
           /\ index' = st.index
    /\ pc' = "loop"
    /\ UNCHANGED <<graphVars, defined, max_index, children, parent, stack,
                   changed, iterVars, histVars, prevVars, qret>>

\* do { inc_irg_visited(irg); changed = pd_compute(tree, ret); ...
PdPassBegin ==
    /\ pc = "loop"
    /\ visited' = {}
    /\ stack' = <<>>
    /\ pc' = "pass"
    /\ UNCHANGED <<graphVars, treeVars, changed, iterVars, histVars, prevVars, qret>>

Top == stack[Len(stack)]

\* The node the next pd_compute call is made on, Nil if the running
\* activation has no call left to make.
Callee ==
    IF stack = <<>> THEN ret
    ELSE IF Top.i < Len(deps[Top.irn]) THEN deps[Top.irn][Top.i + 1]
    ELSE Nil

\* pd_compute on a visited node: return 0.
PdComputeSkip ==
    /\ pc = "pass"
    /\ Callee # Nil
    /\ Callee \in visited
    /\ stack' = [stack EXCEPT ![Len(stack)].i = @ + 1]
    /\ UNCHANGED <<graphVars, pc, treeVars, visited, changed, iterVars,
                   histVars, prevVars, qret>>

\* pd_compute on an unvisited node, up to its loop over the dependencies.
PdComputeVisit ==
    /\ pc = "pass"
    /\ Callee # Nil
    /\ Callee \notin visited
    /\ LET irn     == Callee
           pd_idom == new_idom(irn)
           sp      == pd_set_parent(parent, children, pd_idom, irn)
       IN  IF irn = ret
           THEN /\ visited' = visited \cup {irn}
                /\ stack' = Append(stack, [irn |-> irn, i |-> 0, changed |-> FALSE])
                /\ UNCHANGED <<pc, treeVars, histVars>>
           ELSE IF irn \notin shadow \/ pd_idom \notin Nodes
           THEN /\ pc' = "abort"
                /\ UNCHANGED <<treeVars, visited, stack, histVars>>
           ELSE IF parent[irn] = pd_idom
           THEN /\ visited' = visited \cup {irn}
                /\ stack' = Append(stack, [irn |-> irn, i |-> 0, changed |-> FALSE])
                /\ UNCHANGED <<pc, treeVars, histVars>>
           ELSE IF ~sp.ok
           THEN /\ pc' = "abort"
                /\ UNCHANGED <<treeVars, visited, stack, histVars>>
           ELSE /\ visited' = visited \cup {irn}
                /\ parent' = sp.parent
                /\ children' = sp.children
                /\ defined' = [defined EXCEPT ![irn] = TRUE]
                /\ stack' = Append(stack, [irn |-> irn, i |-> 0, changed |-> TRUE])
                /\ attachClock' = attachClock + 1
                /\ attachTime' = [attachTime EXCEPT ![irn] = attachClock + 1]
                /\ UNCHANGED <<pc, shadow, index, max_index>>
    /\ UNCHANGED <<graphVars, changed, iterVars, prevVars, qret>>

\* pd_compute: the loop over the dependencies is through, return changed.
PdComputeReturn ==
    /\ pc = "pass"
    /\ stack # <<>>
    /\ Top.i = Len(deps[Top.irn])
    /\ IF Len(stack) = 1
       THEN /\ changed' = Top.changed
            /\ stack' = <<>>
            /\ pc' = "while"
       ELSE /\ stack' = [SubSeq(stack, 1, Len(stack) - 1)
                            EXCEPT ![Len(stack) - 1].i = @ + 1,
                                   ![Len(stack) - 1].changed = @ \/ Top.changed]
            /\ UNCHANGED <<changed, pc>>
    /\ UNCHANGED <<graphVars, treeVars, visited, iterVars, histVars, prevVars, qret>>

\* The loop condition inverted: while(!changed).
PdPassEnd_inverted ==
    /\ pc = "while"
    /\ pc' = IF ~changed THEN "loop" ELSE "dom"
    /\ UNCHANGED <<graphVars, treeVars, visited, stack, changed, iterVars,
                   histVars, prevVars, qret>>

\* ... } while(changed);
PdPassEnd ==
    /\ pc = "while"
    /\ pc' = IF changed THEN "loop" ELSE "dom"
    /\ UNCHANGED <<graphVars, treeVars, visited, stack, changed, iterVars,
                   histVars, prevVars, qret>>

\* pd_compute_indices_dom(tree->root, 0);
PdIndexDom ==
    /\ pc = "dom"
    /\ LET st == pd_compute_indices_dom(
                     [index |-> index, max_index |-> max_index, counter |-> 0],
                     ret, 0)
       IN  /\ index' = st.index
           /\ max_index' = st.max_index
    /\ pc' = "return"
    /\ UNCHANGED <<graphVars, shadow, defined, children, parent, visited,
                   stack, changed, iterVars, histVars, prevVars, qret>>

\* pd_init deactivating the edges whatever edges_assure returned.
PdInitReturn_deactivate ==
    /\ pc = "return"
    /\ edges' = FALSE
    /\ outs' = NoOuts
    /\ pc' = "done"
    /\ UNCHANGED <<deps, edgesBefore, treeVars, visited, stack, changed,
                   iterVars, histVars, prevVars, qret>>

\* if (!edges) edges_deactivate(irg); return tree;
PdInitReturn ==
    /\ pc = "return"
    /\ IF edgesBefore
       THEN UNCHANGED <<edges, outs>>
       ELSE edges' = FALSE /\ outs' = NoOuts
    /\ pc' = "done"
    /\ UNCHANGED <<deps, edgesBefore, treeVars, visited, stack, changed,
                   iterVars, histVars, prevVars, qret>>

\* pd_children_iter_init(pdt, irn, it): *it = plist_first(pdn->children);
\* assert(pdn) stops the program for a node without phase data.
PdChildrenIterInit ==
    /\ pc = "done"
    /\ \E irn \in Nodes :
          IF irn \in shadow
          THEN /\ iterIrn' = irn
               /\ iter' = IF children[irn] = <<>> THEN Nil ELSE 1
               /\ iterOut' = <<>>
               /\ qret' = [op |-> "pd_children_iter_init", args |-> <<irn>>,
                           res |-> 0, fatal |-> FALSE]
               /\ UNCHANGED pc
          ELSE /\ pc' = "fatal"
               /\ qret' = [op |-> "pd_children_iter_init", args |-> <<irn>>,
                           res |-> 0, fatal |-> TRUE]
               /\ UNCHANGED iterVars
    /\ UNCHANGED <<graphVars, treeVars, visited, stack, changed,
                   histVars, prevVars>>

\* pd_children_iter_next(it); one NULL result is recorded at most.
PdChildrenIterNext ==
    /\ pc = "done"
    /\ iterIrn # Nil
    /\ \A k \in DOMAIN iterOut : iterOut[k] # Nil
    /\ IF iter = Nil
       THEN /\ iterOut' = Append(iterOut, Nil)
            /\ iter' = Nil
       ELSE /\ iterOut' = Append(iterOut, children[iterIrn][iter])
            /\ iter' = IF iter < Len(children[iterIrn]) THEN iter + 1 ELSE Nil
    /\ UNCHANGED <<graphVars, pc, treeVars, visited, stack, changed,
                   iterIrn, histVars, prevVars, qret>>

\* pd_free(pdt), then pd_init(irg) is called once more on the same graph.
PdFree ==
    /\ pc = "done"
    /\ builds < MaxBuilds
    /\ prevParent' = parent
    /\ prevDom' = {ab \in shadow \X shadow : pd_dominates(ab[1], ab[2])}
    /\ prevOuts' = usedOuts
    /\ pc' = "init"
    /\ shadow' = {}
    /\ defined' = NoFlags
    /\ index' = NoIndex
    /\ max_index' = NoIndex
    /\ children' = NoChildren
    /\ parent' = NoParent
    /\ iterIrn' = Nil
    /\ iter' = Nil
    /\ iterOut' = <<>>
    /\ attachClock' = 0
    /\ attachTime' = NoIndex
    /\ qret' = NoQuery
    /\ UNCHANGED <<graphVars, visited, stack, changed, builds, usedOuts>>

Build ==
    \/ PdInitSetup
    \/ PdIndexPost
    \/ PdPassBegin
    \/ PdComputeSkip
    \/ PdComputeVisit
    \/ PdComputeReturn
    \/ PdPassEnd
    \/ PdIndexDom
    \/ PdInitReturn

Next ==
    \/ Build
    \/ PdChildrenIterInit
    \/ PdChildrenIterNext

Spec == Init /\ [][Next]_vars

\* pd_init is one blocking call: once entered it runs on until it returns.
SpecLive == Init /\ [][Next]_vars /\ WF_vars(Build)

NextRebuild == Next \/ PdFree

\* What a read through a NULL pd_node pointer may come to: the program
\* stops, or the read yields some value and the comparison some answer.
NullReadOutcomes == {[fatal |-> TRUE, res |-> 0],
                     [fatal |-> FALSE, res |-> 0],
                     [fatal |-> FALSE, res |-> 1]}

\* pd_dominates(pdt, lhs, rhs): no check of lhs_node and rhs_node.
PdDominatesCall ==
    /\ pc = "done"
    /\ \E lhs \in Nodes, rhs \in Nodes :
          \E o \in (IF lhs \in shadow /\ rhs \in shadow
                    THEN {[fatal |-> FALSE,
                           res |-> IF pd_dominates(lhs, rhs) THEN 1 ELSE 0]}
                    ELSE NullReadOutcomes) :
              /\ qret' = [op |-> "pd_dominates", args |-> <<lhs, rhs>>,
                          res |-> o.res, fatal |-> o.fatal]
              /\ pc' = IF o.fatal THEN "fatal" ELSE pc
    /\ UNCHANGED <<graphVars, treeVars, visited, stack, changed, iterVars,
                   histVars, prevVars>>

\* pd_get_parent(pdt, irn)
PdGetParentCall ==
    /\ pc = "done"
    /\ \E irn \in Nodes :
          /\ qret' = [op |-> "pd_get_parent", args |-> <<irn>>,
                      res |-> IF irn \in shadow THEN pd_get_parent(irn) ELSE 0,
                      fatal |-> irn \notin shadow]
          /\ pc' = IF irn \in shadow THEN pc ELSE "fatal"
    /\ UNCHANGED <<graphVars, treeVars, visited, stack, changed, iterVars,
                   histVars, prevVars>>

\* pd_get_children_count(pdt, irn)
PdGetChildrenCountCall ==
    /\ pc = "done"
    /\ \E irn \in Nodes :
          /\ qret' = [op |-> "pd_get_children_count", args |-> <<irn>>,
                      res |-> IF irn \in shadow
                              THEN pd_get_children_count(irn) ELSE 0,
                      fatal |-> irn \notin shadow]
          /\ pc' = IF irn \in shadow THEN pc ELSE "fatal"
    /\ UNCHANGED <<graphVars, treeVars, visited, stack, changed, iterVars,
                   histVars, prevVars>>

NextQuery ==
    \/ Build
    \/ PdDominatesCall
    \/ PdGetParentCall
    \/ PdGetChildrenCountCall
    \/ PdChildrenIterInit

SpecQuery == Init /\ [][NextQuery]_vars

SpecRebuild == Init /\ [][NextRebuild]_vars

-----------------------------------------------------------------------------
(* Graph-side and tree-side notions the properties are stated with. *)

\* Nodes reachable from n over dependency edges.
RECURSIVE ReachFrom(_)
ReachFrom(n) == {n} \cup UNION {ReachFrom(deps[n][i]) : i \in DOMAIN deps[n]}

Reach == ReachFrom(ret)

\* The uses of n: nodes with a dependency edge to n.
UsesOf(n) == {u \in Nodes : \E i \in DOMAIN deps[u] : deps[u][i] = n}

\* Some use-chain leads from n to the sink without touching a.
RECURSIVE ReachesSinkAvoiding(_, _)
ReachesSinkAvoiding(n, a) ==
    /\ n # a
    /\ \/ n = ret
       \/ \E u \in UsesOf(n) : ReachesSinkAvoiding(u, a)

\* a dominates n: every use-chain from n to the sink passes through a.
Dominates(a, n) == a = n \/ ~ReachesSinkAvoiding(n, a)

StrictDoms(n) == {a \in Reach \ {n} : Dominates(a, n)}

\* a is the closest strict dominator of n.
IsIdom(a, n) ==
    /\ a \in StrictDoms(n)
    /\ \A b \in StrictDoms(n) : Dominates(b, a)

\* a is reached from b by following k or fewer parent links, k >= 1.
RECURSIVE ParentChain(_, _, _)
ParentChain(a, b, k) ==
    /\ k > 0
    /\ parent[b] # Nil
    /\ (parent[b] = a \/ ParentChain(a, parent[b], k - 1))

ProperAncestor(a, b) == ParentChain(a, b, NumNodes)

\* Nodes reached from n over children lists, n included; k bounds the depth.
RECURSIVE Subtree(_, _)
Subtree(n, k) ==
    {n} \cup (IF k = 0 THEN {}
              ELSE UNION {Subtree(children[n][i], k - 1) : i \in DOMAIN children[n]})

Built == pc = "done"

-----------------------------------------------------------------------------
(* C1: after build, parent(n) of every non-sink node n reachable from the  *)
(* sink is n's immediate dominator: the closest node other than n that     *)
(* lies on every use-chain from n to the sink.  A node whose uses have no   *)
(* common dominator besides the sink is a direct child of the sink.        *)
C1_ParentIsImmediateDominator ==
    Built =>
        \A n \in Reach \ {ret} :
            /\ IsIdom(parent[n], n)
            /\ (\A a \in Reach \ {ret} :
                    \E u \in UsesOf(n) \cap Reach : ~Dominates(a, u))
               => parent[n] = ret

\* The diamond: n has two uses below the sink, neither is its parent.
C1_Witness ==
    /\ Built
    /\ \E n \in Reach \ {ret} :
          /\ parent[n] = ret
          /\ ret \notin UsesOf(n)
          /\ Cardinality(UsesOf(n) \cap Reach) >= 2

(* C2: after build, for nodes A and B with shadows, dominates(A, B) is     *)
(* true exactly when A = B or following parent links from B reaches A;     *)
(* nodes in different sibling subtrees never dominate each other.          *)
C2_DominatesIsAncestry ==
    Built =>
        \A a \in shadow, b \in shadow :
            /\ pd_dominates(a, b) <=> (a = b \/ ProperAncestor(a, b))
            /\ (a # b /\ ~ProperAncestor(a, b) /\ ~ProperAncestor(b, a))
               => (~pd_dominates(a, b) /\ ~pd_dominates(b, a))

\* A tree of depth two with two sibling subtrees.
C2_Witness ==
    /\ Built
    /\ \E a \in shadow, b \in shadow, c \in shadow :
          /\ parent[a] = ret /\ parent[b] = ret /\ a # b
          /\ parent[c] = a
          /\ pd_dominates(a, c) /\ ~pd_dominates(b, c) /\ ~pd_dominates(c, b)

(* C3: in every built tree each non-root node has exactly one parent,      *)
(* parent links lead from every node to the root without repeating a node, *)
(* and the nodes reachable from the root over children lists are exactly   *)
(* the nodes reachable from the sink over dependency edges.                *)
Occurrences(n) ==
    {e \in Nodes \X (1..NumNodes) :
        e[2] \in DOMAIN children[e[1]] /\ children[e[1]][e[2]] = n}

C3_TreeValidity ==
    Built =>
        /\ parent[ret] = Nil
        /\ Occurrences(ret) = {}
        /\ \A n \in shadow \ {ret} :
              /\ parent[n] \in shadow
              /\ Cardinality(Occurrences(n)) = 1
              /\ \A e \in Occurrences(n) : e[1] = parent[n]
              /\ ProperAncestor(ret, n)
              /\ ~ProperAncestor(n, n)
        /\ \A n \in Nodes : Len(children[n]) < NumNodes
        /\ Subtree(ret, NumNodes) = Reach
        /\ shadow = Reach

\* A build in which some node was moved to another parent.
C3_Witness ==
    /\ Built
    /\ Cardinality(shadow) >= 3
    /\ attachClock > Cardinality(shadow) - 1

(* C4: after the tree-indexing pass, index(v) <= index(c) <= max_index(c) *)
(* <= max_index(v) for every node v and every descendant c of v; the       *)
(* indices are the preorder numbers of a walk over the children lists that *)
(* starts with 0 at the root, and max_index(v) is the largest index handed *)
(* out inside v's subtree (v's own index if v has no children).            *)
MaxOf(S) == CHOOSE m \in S : \A x \in S : x <= m

C4_IntervalNesting ==
    Built =>
        /\ index[ret] = 0
        /\ \A v \in shadow :
              /\ \A c \in Subtree(v, NumNodes) :
                    /\ index[v] <= index[c]
                    /\ index[c] <= max_index[c]
                    /\ max_index[c] <= max_index[v]
              /\ max_index[v] = MaxOf({index[c] : c \in Subtree(v, NumNodes)})
              /\ children[v] = <<>> => max_index[v] = index[v]
              /\ \A k \in DOMAIN children[v] :
                    index[children[v][k]] =
                        IF k = 1 THEN index[v] + 1
                        ELSE max_index[children[v][k - 1]] + 1

\* An inner node with a strict sub-interval and a sibling after it.
C4_Witness ==
    /\ Built
    /\ \E v \in shadow \ {ret} :
          /\ children[v] # <<>>
          /\ index[v] < max_index[v]
          /\ max_index[v] < max_index[ret]

(* C5: build terminates: the fixpoint loop eventually completes a pass     *)
(* that made no reparenting change, after which the tree-indexing pass     *)
(* runs and build returns.  Stated on the state pd_init returns in: the    *)
(* last pass returned changed = 0 and the root's interval spans all nodes. *)
C5_BuildTerminates ==
    <>(/\ pc = "done"
       /\ ~changed
       /\ index[ret] = 0
       /\ max_index[ret] = Cardinality(Reach) - 1)

\* A build that needed three passes has returned.
C5_Witness ==
    /\ Built
    /\ Cardinality(shadow) = NumNodes
    /\ attachClock > Cardinality(shadow) - 1

(* C6: after build, dominates(root, X) is true for every node X reachable  *)
(* from the sink: the root's interval holds the index of every node that   *)
(* has a shadow.                                                           *)
C6_RootDominatesAll ==
    Built =>
        /\ \A x \in Reach : x \in shadow /\ pd_dominates(pd_get_root, x)
        /\ \A x \in shadow :
              index[pd_get_root] <= index[x] /\ index[x] <= max_index[pd_get_root]

\* The root dominates a node that is not its child.
C6_Witness ==
    /\ Built
    /\ \E x \in shadow :
          /\ parent[x] \notin {Nil, ret}
          /\ pd_dominates(pd_get_root, x)

(* C7: after build, dominates(A, B) and dominates(B, A) are never both     *)
(* true for distinct nodes A and B with shadows; distinct nodes never get  *)
(* the same query index.                                                   *)
C7_Antisymmetry ==
    Built =>
        \A a \in shadow, b \in shadow :
            a # b => /\ ~(pd_dominates(a, b) /\ pd_dominates(b, a))
                     /\ index[a] # index[b]

\* One direction holds, the other does not.
C7_Witness ==
    /\ Built
    /\ \E a \in shadow \ {ret}, b \in shadow :
          a # b /\ pd_dominates(a, b) /\ ~pd_dominates(b, a)

(* C8: after build, dominates(A, A) is true for every node A with a shadow *)
(* (index(A) <= max_index(A)); for a sink without dependencies the tree is *)
(* the root alone, with childrenCount(root) = 0.                           *)
C8_Reflexivity ==
    Built =>
        /\ \A a \in shadow : pd_dominates(a, a) /\ index[a] <= max_index[a]
        /\ deps[ret] = <<>> =>
              /\ shadow = {ret}
              /\ pd_get_children_count(pd_get_root) = 0
              /\ pd_get_parent(pd_get_root) = Nil
              /\ pd_dominates(pd_get_root, pd_get_root)

\* The graph whose sink has no dependencies has been built.
C8_Witness ==
    /\ Built
    /\ deps[ret] = <<>>
    /\ pd_get_children_count(ret) = 0

(* C9: building the tree twice from the same unchanged graph yields the    *)
(* same parent relation and the same dominates(A, B) answers for all       *)
(* pairs, whatever the order in which the uses of each node are            *)
(* enumerated in either build; only sibling order and interval numbers may *)
(* differ.                                                                 *)
C9_RebuildSameTree ==
    (Built /\ builds >= 2) =>
        /\ parent = prevParent
        /\ {ab \in shadow \X shadow : pd_dominates(ab[1], ab[2])} = prevDom

\* A second build of the same graph met the uses of a node in another
\* order, and that node's parent is the intersection of its uses.
C9_Witness ==
    /\ Built
    /\ builds = 2
    /\ parent = prevParent
    /\ \E n \in shadow \ {ret} :
          /\ usedOuts[n] # prevOuts[n]
          /\ \A k \in DOMAIN usedOuts[n] : usedOuts[n][k] \in shadow
          /\ parent[n] \notin UsesOf(n)

(* C10: after build, for every node A with a shadow, parent(A) is none     *)
(* exactly when A is the sink; the children iterator of A yields exactly   *)
(* the nodes B with parent(B) = A, each once, in the order in which they   *)
(* were attached to A, and then none; childrenCount(A) is the number of    *)
(* such nodes.                                                             *)
KidsOf(a) == {b \in shadow : parent[b] = a}

Exhausted == iterOut # <<>> /\ iterOut[Len(iterOut)] = Nil

Yielded == IF Exhausted THEN SubSeq(iterOut, 1, Len(iterOut) - 1) ELSE iterOut

C10_Accessors ==
    Built =>
        /\ \A a \in shadow :
              /\ pd_get_parent(a) = Nil <=> a = ret
              /\ pd_get_children_count(a) = Cardinality(KidsOf(a))
        /\ iterIrn # Nil =>
              /\ \A k \in DOMAIN Yielded :
                    /\ Yielded[k] \in KidsOf(iterIrn)
                    /\ \A j \in 1..(k - 1) : Yielded[j] # Yielded[k]
                    /\ \A b \in KidsOf(iterIrn) \ {Yielded[j] : j \in 1..k} :
                          attachTime[Yielded[k]] < attachTime[b]
              /\ Exhausted => {Yielded[k] : k \in DOMAIN Yielded} = KidsOf(iterIrn)
              /\ Len(Yielded) = Cardinality(KidsOf(iterIrn)) => iter = Nil

\* An iteration over three children, one of them reparented, ran to its end.
C10_Witness ==
    /\ Built
    /\ Exhausted
    /\ Len(Yielded) = 3
    /\ attachClock > Cardinality(shadow) - 1

(* C11: a query on a node without a shadow is a fatal error at the query  *)
(* site, for dominates(A, B) with either argument lacking a shadow and for *)
(* parent, childrenCount and children; no such query returns an ordinary   *)
(* result.                                                                 *)
C11_QueryWithoutShadowIsFatal ==
    (qret.op # "none" /\ \E k \in DOMAIN qret.args : qret.args[k] \notin shadow)
        => (qret.fatal /\ pc = "fatal")

(* C12: build leaves the nodes, the dependency edges and the use edges of  *)
(* the graph unchanged, and the reverse-edge index is active after build   *)
(* exactly if it was active before: an inactive index is activated for the *)
(* computation and deactivated before build returns, an active one stays   *)
(* active.                                                                 *)
C12_GraphFrame ==
    [][/\ deps' = deps
       /\ pc = "init" =>
             /\ edges'
             /\ edgesBefore' = edges
             /\ edges => outs' = outs
             /\ \A n \in Nodes : \A u \in Nodes :
                   Cardinality({k \in DOMAIN outs'[n] : outs'[n][k] = u})
                       = EdgeCount(deps, u, n)
       /\ pc \in {"post", "loop", "pass", "while", "dom"} =>
             edges /\ edges' /\ outs' = outs
       /\ pc = "return" =>
             /\ edges' = edgesBefore
             /\ edgesBefore => outs' = outs
             /\ ~edgesBefore => outs' = NoOuts
       /\ pc \in {"done", "fatal", "abort"} =>
             edges' = edges /\ outs' = outs]_vars

\* A build on a graph with edges whose index was inactive has returned.
C12_Witness ==
    /\ Built
    /\ ~edgesBefore
    /\ ~edges
    /\ outs = NoOuts
    /\ usedOuts # NoOuts

(* C13: at every point of the solving phase, after every reparenting step  *)
(* of every pass, the postorder index of parent(v) is strictly greater     *)
(* than that of v for every node v that has a parent; the postorder        *)
(* indices are not modified between the end of the index-assignment pass   *)
(* and the start of the tree-indexing pass.                                *)
Solving == pc \in {"loop", "pass", "while", "dom"}

C13_IndexGrowsTowardsRoot ==
    /\ [](Solving =>
             \A v \in shadow :
                 parent[v] # Nil => index[parent[v]] > index[v])
    /\ [][Solving /\ pc # "dom" => index' = index]_vars

\* Inside a later pass, right after a node was moved below a non-use.
C13_Witness ==
    /\ pc = "pass"
    /\ stack # <<>>
    /\ Top.changed
    /\ Top.i = 0
    /\ attachClock > Cardinality(shadow) - 1
    /\ parent[Top.irn] \notin UsesOf(Top.irn)

(* C14: every intersect(a, b) call the solver makes terminates, never      *)
(* advances a node that has no parent, and returns the nearest common      *)
(* ancestor of a and b in the parent tree as it stands at the call.  The   *)
(* solver calls intersect in a solving state on two defined nodes; the     *)
(* property is stated for every such pair and for the calls of the visit   *)
(* that comes next.                                                        *)
AncestorOrSelf(a, b) == a = b \/ ProperAncestor(a, b)

IsNearestCommonAncestor(c, a, b) ==
    /\ c \in shadow
    /\ AncestorOrSelf(c, a)
    /\ AncestorOrSelf(c, b)
    /\ \A d \in shadow :
          (AncestorOrSelf(d, a) /\ AncestorOrSelf(d, b)) => AncestorOrSelf(d, c)

\* The intersect calls pd_compute makes for irn from out edge k on.
RECURSIVE IntersectCallsRight(_, _, _)
IntersectCallsRight(irn, k, cand) ==
    IF k > Len(outs[irn]) THEN TRUE
    ELSE LET src == outs[irn][k]
         IN  IF src \in shadow /\ src # cand /\ defined[src]
             THEN LET r == pd_compute_intersect(src, cand, 2 * NumNodes)
                  IN  /\ r \in Nodes
                      /\ IsNearestCommonAncestor(r, src, cand)
                      /\ IntersectCallsRight(irn, k + 1, r)
             ELSE IntersectCallsRight(irn, k + 1, cand)

C14_IntersectIsNearestCommonAncestor ==
    pc = "pass" =>
        /\ \A a \in shadow, b \in shadow :
              (defined[a] /\ defined[b]) =>
                  LET r == pd_compute_intersect(a, b, 2 * NumNodes)
                  IN  r \in Nodes /\ IsNearestCommonAncestor(r, a, b)
        /\ (Callee \notin {Nil, ret} /\ Callee \notin visited
            /\ find_new_idom(Callee, 1) # Nil)
               => IntersectCallsRight(Callee, 1, find_new_idom(Callee, 1))

\* The next visit intersects two uses and ends on a third node.
C14_Witness ==
    /\ pc = "pass"
    /\ Callee \notin {Nil, ret}
    /\ Callee \notin visited
    /\ \E k \in DOMAIN outs[Callee] :
          LET first == find_new_idom(Callee, 1)
              src   == outs[Callee][k]
          IN  /\ first # Nil
              /\ src \in shadow /\ defined[src] /\ src # first
              /\ pd_compute_intersect(src, first, 2 * NumNodes) \notin {src, first}
              /\ pd_compute_intersect(src, first, 2 * NumNodes) = new_idom(Callee)

(* C15: whenever the solver processes a non-sink node, in any pass, at     *)
(* least one use of that node is already defined, so the assertion that a  *)
(* candidate dominator was found never fails and no pass leaves a node     *)
(* unresolved; every reachable node is defined and has a parent at the end *)
(* of the first pass.                                                      *)
C15_SomeUseIsDefined ==
    /\ pc # "abort"
    /\ (pc = "pass" /\ Callee \notin {Nil, ret} /\ Callee \notin visited) =>
          /\ Callee \in shadow
          /\ \E k \in DOMAIN outs[Callee] :
                outs[Callee][k] \in shadow /\ defined[outs[Callee][k]]
          /\ find_new_idom(Callee, 1) # Nil
    /\ pc = "while" =>
          \A n \in Reach \ {ret} :
              n \in shadow /\ defined[n] /\ parent[n] # Nil

\* The first pass over a graph of NumNodes reachable nodes has ended.
C15_Witness ==
    /\ pc = "while"
    /\ changed
    /\ Cardinality(Reach) = NumNodes
    /\ attachClock = NumNodes - 1
    /\ \A n \in Reach \ {ret} : defined[n]

(* C16 as claimed: at all times during construction, after every single   *)
(* reparenting step included, every DomNode except the root has exactly    *)
(* one parent, the parent relation is a tree rooted at the root, and a     *)
(* node is in the children list of its current parent exactly once and in  *)
(* no other children list.                                                 *)
Constructing == pc \in {"loop", "pass", "while", "dom", "return"}

C16_EveryNodeHasParent ==
    Constructing =>
        \A n \in shadow \ {ret} :
            /\ parent[n] \in shadow
            /\ ProperAncestor(ret, n)
            /\ ~ProperAncestor(n, n)
            /\ Cardinality(Occurrences(n)) = 1
            /\ \A e \in Occurrences(n) : e[1] = parent[n]

(* C16 amended: at all times during construction, after every single      *)
(* reparenting step included, every DomNode that has been resolved         *)
(* (defined) except the root has exactly one parent, which is resolved     *)
(* too, the parent relation over the resolved nodes is a tree rooted at    *)
(* the root, and a resolved node is in the children list of its current    *)
(* parent exactly once and in no other children list; a DomNode that is    *)
(* not resolved yet has no parent and is in no children list.              *)
C16_ResolvedNodesFormTree ==
    Constructing =>
        /\ ret \in shadow /\ defined[ret]
        /\ parent[ret] = Nil
        /\ Occurrences(ret) = {}
        /\ \A n \in shadow \ {ret} :
              IF defined[n]
              THEN /\ parent[n] \in shadow
                   /\ defined[parent[n]]
                   /\ ProperAncestor(ret, n)
                   /\ ~ProperAncestor(n, n)
                   /\ Cardinality(Occurrences(n)) = 1
                   /\ \A e \in Occurrences(n) : e[1] = parent[n]
              ELSE /\ parent[n] = Nil
                   /\ Occurrences(n) = {}
        /\ \A n \in Nodes \ shadow : children[n] = <<>> /\ parent[n] = Nil

\* Right after a node was detached from one list and appended to another.
C16_Witness ==
    /\ pc = "pass"
    /\ stack # <<>>
    /\ Top.changed
    /\ attachClock > Cardinality(shadow) - 1
    /\ LET p == parent[Top.irn]
       IN  /\ p # Nil
           /\ Len(children[p]) >= 3
           /\ children[p][Len(children[p])] = Top.irn

(* C17: the index-assignment pass visits every node reachable from the     *)
(* sink over dependency edges exactly once, also an operand of several     *)
(* consumers, and no other node; the indices it assigns are a permutation  *)
(* of 0..n-1 over exactly those n nodes, and every dependency has a        *)
(* smaller index than the node that depends on it.                         *)
C17_PostorderIsPermutation ==
    /\ (pc = "loop" /\ attachClock = 0) => visited = Reach
    /\ (pc \in {"loop", "pass", "while"}) =>
          /\ shadow = Reach
          /\ {index[n] : n \in Reach} = 0..(Cardinality(Reach) - 1)
          /\ \A n \in Reach, m \in Reach : n # m => index[n] # index[m]
          /\ \A n \in Nodes \ Reach : index[n] = 0
          /\ \A n \in Reach : \A i \in DOMAIN deps[n] :
                index[deps[n][i]] < index[n]

\* The pass has numbered a graph in which an operand has two consumers.
C17_Witness ==
    /\ pc = "loop"
    /\ attachClock = 0
    /\ Cardinality(Reach) = NumNodes
    /\ \E n \in Reach : Cardinality(UsesOf(n) \cap Reach) >= 2
    /\ index[ret] = NumNodes - 1

=============================================================================
